---- MODULE Spec2Model ----
(***************************************************************************)
(* Model of devsend's job scheduling and execution subsystem:              *)
(* devsend/scheduler.py (execute_scheduled_job, calculate_next_run,        *)
(* schedule_job, load_all_jobs, start_scheduler, stop_scheduler), the job  *)
(* routes of devsend/main.py (create_job, delete_job) and the bulk send of *)
(* devsend/email_service.py.                                               *)
(*                                                                         *)
(* Instants (Python datetime) are integers: hours since 2024-01-01T00:00,  *)
(* decoded to year/month/day/hour by the calendar below.  All schedule     *)
(* times are on the hour, the process runs in UTC.  The background         *)
(* scheduler is APScheduler's BackgroundScheduler with its defaults        *)
(* (replace_existing as passed, coalesce, max_instances = 1,               *)
(* misfire_grace_time = 1 s, i.e. less than one clock unit).               *)
(***************************************************************************)
EXTENDS Integers, Sequences, FiniteSets, Bags, TLC

\* ------------------------------------------------------------------ bounds
MaxJobs == 2
MaxTicks == 2
MaxStarts == 1
NumRecipients == 2

\* ------------------------------------------------------------- calendar
\* None of a nullable DateTime column; "*" of a cron field
NoTime == 0 - 1
Star == 0 - 1

IsLeap(y) == (y % 4 = 0) /\ ((y % 100 # 0) \/ (y % 400 = 0))

DaysInMonth(y, m) ==
  IF m = 2 THEN (IF IsLeap(y) THEN 29 ELSE 28)
  ELSE IF m \in {4, 6, 9, 11} THEN 30 ELSE 31

RECURSIVE WalkMonths(_, _, _)
\* year, month, day-of-month of the day that is rem days after y-m-01
WalkMonths(y, m, rem) ==
  IF rem < DaysInMonth(y, m) THEN [year |-> y, month |-> m, day |-> rem + 1]
  ELSE IF m = 12 THEN WalkMonths(y + 1, 1, rem - DaysInMonth(y, m))
  ELSE WalkMonths(y, m + 1, rem - DaysInMonth(y, m))

\* the epoch, day 0, is 2024-01-01
DateOfDay(d) == WalkMonths(2024, 1, d)

RECURSIVE DaysBefore(_, _)
\* number of days from the epoch to y-m-01
DaysBefore(y, m) ==
  IF y <= 2024 /\ m = 1 THEN 0
  ELSE IF m = 1 THEN DaysBefore(y - 1, 12) + DaysInMonth(y - 1, 12)
  ELSE DaysBefore(y, m - 1) + DaysInMonth(y, m - 1)

MakeTime(y, m, d, h) == (DaysBefore(y, m) + (d - 1)) * 24 + h

DayIndex(t) == t \div 24
HourOf(t) == t % 24
YearOf(t) == DateOfDay(DayIndex(t)).year
MonthOf(t) == DateOfDay(DayIndex(t)).month
DayOf(t) == DateOfDay(DayIndex(t)).day
\* datetime.weekday(): Monday is 0; 2024-01-01 is a Monday
Weekday(t) == DayIndex(t) % 7

\* timedelta arithmetic
PlusDays(t, n) == t + 24 * n

\* datetime.replace(year=y, month=m): ValueError when the day does not exist
ReplaceYearMonth(t, y, m) ==
  IF DayOf(t) > DaysInMonth(y, m) THEN [ok |-> FALSE, val |-> NoTime]
  ELSE [ok |-> TRUE, val |-> MakeTime(y, m, DayOf(t), HourOf(t))]

\* ------------------------------------------------------------ job store
JobIds == 1..MaxJobs
Users == {1, 2}
\* rows of email_templates: template 1 exists, template 2 does not
TemplateIds == {1}
Recipients == [i \in 1..NumRecipients |-> i]

\* the process starts on 2024-01-28 (a Sunday) at 08:00
Now0 == MakeTime(2024, 1, 28, 8)
TNear == MakeTime(2024, 1, 28, 9)
TPast == MakeTime(2024, 1, 27, 9)
TEndOfMonth == MakeTime(2024, 1, 31, 12)

\* cron_expression is kept as the text's whitespace-separated tokens, which is
\* what str.split() returns; the empty text has no token
CronNone == << >>
CronDaily9 == <<"0", "9", "*", "*", "*">>
CronFourFields == <<"0", "9", "*", "*">>
CronBadHour == <<"0", "99", "*", "*", "*">>

\* a recipient_emails text that is no JSON
Unparsable == <<0>>

\* json.loads(job.recipient_emails): the list, or ok = FALSE when it raises
json_loads(text) ==
  IF text = Unparsable THEN [ok |-> FALSE, val |-> << >>] ELSE [ok |-> TRUE, val |-> text]

\* ScheduledJob row
JobRow(u, tpl, st, t, cron, act) ==
  [user_id |-> u, template_id |-> tpl, recipient_emails |-> Recipients,
   schedule_type |-> st, schedule_time |-> t, cron_expression |-> cron,
   is_active |-> act, next_run |-> t, last_run |-> NoTime]

\* ------------------------------------------------------------- triggers
\* DateTrigger(run_date): run_date None means "now" at construction
DateTrigger(run_date, t) ==
  [kind |-> "date", run_date |-> IF run_date = NoTime THEN t ELSE run_date,
   hour |-> Star, day |-> Star, month |-> Star, dow |-> Star]

\* CronTrigger(minute, hour, day, month, day_of_week); minutes are always 0
CronTrigger(hour, day, month, dow) ==
  [kind |-> "cron", run_date |-> NoTime,
   hour |-> hour, day |-> day, month |-> month, dow |-> dow]

\* value of one cron token
TokenValue(tok) ==
  CASE tok = "*" -> Star
    [] tok = "0" -> 0
    [] tok = "9" -> 9
    [] tok = "99" -> 99
    [] OTHER -> 0 - 2

\* CronTrigger raises ValueError for a value outside the field's range
FieldValid(tok, lo, hi) ==
  TokenValue(tok) = Star \/ (lo <= TokenValue(tok) /\ TokenValue(tok) <= hi)

CronFieldsValid(parts) ==
  /\ FieldValid(parts[1], 0, 59)
  /\ FieldValid(parts[2], 0, 23)
  /\ FieldValid(parts[3], 1, 31)
  /\ FieldValid(parts[4], 1, 12)
  /\ FieldValid(parts[5], 0, 6)

DayMatches(tr, d) ==
  /\ tr.day = Star \/ DateOfDay(d).day = tr.day
  /\ tr.month = Star \/ DateOfDay(d).month = tr.month
  /\ tr.dow = Star \/ d % 7 = tr.dow

RECURSIVE NextMatchingDay(_, _, _)
NextMatchingDay(tr, d, fuel) ==
  IF fuel = 0 THEN NoTime
  ELSE IF DayMatches(tr, d) THEN d
  ELSE NextMatchingDay(tr, d + 1, fuel - 1)

\* first instant >= from that the cron trigger matches
CronNext(tr, from) ==
  LET d0 == DayIndex(from)
      first == IF tr.hour = Star \/ HourOf(from) <= tr.hour THEN d0 ELSE d0 + 1
      d == NextMatchingDay(tr, first, 400)
  IN IF d = NoTime THEN NoTime
     ELSE IF tr.hour = Star THEN (IF d = d0 THEN from ELSE d * 24)
     ELSE d * 24 + tr.hour

\* trigger.get_next_fire_time(previous_fire_time, now): a date trigger fires
\* once at run_date; a cron trigger at its first match after the previous fire,
\* or after now when it has not fired yet
NextFireTime(tr, prev, t) ==
  IF tr.kind = "date" THEN (IF prev = NoTime THEN tr.run_date ELSE NoTime)
  ELSE IF prev = NoTime THEN CronNext(tr, t + 1)
  ELSE CronNext(tr, prev + 1)

\* ----------------------------------------------------------------- state
VARIABLES
  now,       \* the clock, datetime.utcnow()
  store,     \* table scheduled_jobs: job id -> row, for the rows that exist
  running,   \* scheduler.running
  triggers,  \* the scheduler's jobs: a bag of [id, trig, next]
  execs,     \* the executor's worker slots, one execute_scheduled_job each
  ticks,     \* how many times the clock advanced
  starts,    \* how many times the scheduler was started
  runs,      \* per job id, how many bulk sends were started
  mail,      \* per job id, emails accepted by the provider
  logs,      \* per job id, rows written to email_logs
  outcome,   \* per job id, how its last execution ended
  last,      \* the last call of the scheduling interface, when it is observed
  keys,      \* table api_keys: key id -> row
  resend_api_key,  \* the module attribute resend.api_key: the id of the key in it
  calls      \* per worker slot, the send_email call its execution is in

vars == <<now, ticks, store, running, starts, triggers, execs, runs, mail, logs, outcome, last,
          keys, resend_api_key, calls>>

\* the state of the sending of emails
sendvars == <<keys, resend_api_key, calls>>

\* the pool of the scheduler's default executor, and its max_instances default
MaxWorkers == 2
MaxInstances == 1
Slots == 1..MaxWorkers

IdleExec == [job |-> 0, pc |-> "idle", i |-> 0, n |-> 0, sent |-> 0]

\* the scheduler's job id of a ScheduledJob: f"job_{job.id}"
JobKey(id) == <<"job", id>>

\* the rows the process may find in scheduled_jobs when it starts
Profiles(u) ==
  { JobRow(u, 1, "once", TNear, CronNone, TRUE),
    JobRow(u, 1, "once", TPast, CronNone, TRUE),
    JobRow(u, 1, "once", NoTime, CronNone, TRUE),
    JobRow(u, 2, "once", TNear, CronNone, TRUE),
    JobRow(u, 1, "once", TNear, CronNone, FALSE),
    JobRow(u, 1, "daily", TNear, CronNone, TRUE),
    JobRow(u, 1, "daily", NoTime, CronNone, TRUE),
    JobRow(u, 2, "daily", TNear, CronNone, TRUE),
    JobRow(u, 1, "daily", TNear, CronDaily9, TRUE),
    JobRow(u, 1, "weekly", TNear, CronNone, TRUE),
    JobRow(u, 1, "monthly", TNear, CronNone, TRUE),
    JobRow(u, 1, "monthly", TEndOfMonth, CronNone, TRUE),
    JobRow(u, 1, "cron", NoTime, CronDaily9, TRUE),
    JobRow(u, 1, "cron", NoTime, CronFourFields, TRUE),
    JobRow(u, 1, "cron", NoTime, CronBadHour, TRUE),
    JobRow(u, 1, "cron", NoTime, CronNone, TRUE) }

\* the rows of the further jobs, the ones beside job 1
OtherProfiles(u) ==
  { JobRow(u, 1, "once", TNear, CronNone, TRUE),
    JobRow(u, 1, "daily", TNear, CronNone, TRUE) }

OwnerOf(id) == ((id - 1) % 2) + 1

NoCall == [op |-> "none", id |-> 0]

\* the rows of api_keys: key k belongs to KeyOwner(k); last_used is None (0)
\* or a timestamp, kept as the rank of the timestamp among those written
MaxKeys == 3
KeyIds == 1..MaxKeys
NoKey == 0
KeyOwner(k) == ((k - 1) % 2) + 1
KeyRow(u, act, used, count) ==
  [user_id |-> u, is_active |-> act, last_used |-> used, usage_count |-> count]

IdleCall == [pc |-> "idle", key |-> NoKey, attempt |-> 0, accepted |-> 0, via |-> {},
             logged |-> << >>, result |-> FALSE, variables |-> << >>]

\* no send_email call is in progress; every key is active and was never used
NoSend ==
  /\ keys = [k \in KeyIds |-> KeyRow(KeyOwner(k), TRUE, 0, 0)]
  /\ resend_api_key = NoKey
  /\ calls = [s \in Slots |-> IdleCall]

Init ==
  /\ now = Now0
  /\ ticks = 0
  /\ starts = 0
  /\ \E ids \in SUBSET JobIds :
       store \in { f \in [ids -> UNION { Profiles(u) : u \in Users }] :
                     \A id \in ids :
                       f[id] \in IF id = 1 THEN Profiles(OwnerOf(id))
                                 ELSE OtherProfiles(OwnerOf(id)) }
  /\ running = FALSE
  /\ triggers = EmptyBag
  /\ execs = [s \in Slots |-> IdleExec]
  /\ runs = [id \in JobIds |-> 0]
  /\ mail = [id \in JobIds |-> 0]
  /\ logs = [id \in JobIds |-> 0]
  /\ outcome = [id \in JobIds |-> "none"]
  /\ last = NoCall
  /\ NoSend

\* ------------------------------------------------------------ dispatcher
Entries(trs, key) == { e \in BagToSet(trs) : e.id = key }

\* scheduler.get_job(job_id) is not None
GetJob(trs, key) == Entries(trs, key) # {}

\* number of triggers registered under the key
TriggerCount(trs, key) ==
  LET RECURSIVE Sum(_)
      Sum(S) == IF S = {} THEN 0
                ELSE LET e == CHOOSE x \in S : TRUE
                     IN CopiesIn(e, trs) + Sum(S \ {e})
  IN Sum(Entries(trs, key))

\* scheduler.remove_job(job_id): removes the one job found under the id
RemoveJob(trs, key) ==
  LET e == CHOOSE x \in Entries(trs, key) : TRUE
  IN trs (-) SetToBag({e})

RECURSIVE RemoveAll(_, _)
RemoveAll(trs, key) ==
  IF GetJob(trs, key) THEN RemoveAll(RemoveJob(trs, key), key) ELSE trs

\* scheduler.add_job(..., id=job_id, replace_existing=True): a running scheduler
\* stores the job under its id, replacing the one there, and computes its first
\* fire time; a scheduler that is not running appends it to its pending jobs
AddJob(trs, key, trig, isRunning, t) ==
  IF isRunning
  THEN RemoveAll(trs, key) (+)
       SetToBag({[id |-> key, trig |-> trig, next |-> NextFireTime(trig, NoTime, t)]})
  ELSE trs (+) SetToBag({[id |-> key, trig |-> trig, next |-> NoTime]})

\* ------------------------------------------------------------ scheduler.py
\* calculate_next_run(job) at time t: the datetime returned, or ok = FALSE when
\* datetime.replace raises ValueError
calculate_next_run(job, t) ==
  LET anchor == IF job.schedule_time # NoTime THEN job.schedule_time ELSE t
  IN CASE job.schedule_type = "daily" -> [ok |-> TRUE, val |-> PlusDays(anchor, 1)]
       [] job.schedule_type = "weekly" -> [ok |-> TRUE, val |-> PlusDays(anchor, 7)]
       [] job.schedule_type = "monthly" ->
            IF MonthOf(anchor) = 12
            THEN ReplaceYearMonth(anchor, YearOf(anchor) + 1, 1)
            ELSE ReplaceYearMonth(anchor, YearOf(anchor), MonthOf(anchor) + 1)
       [] OTHER -> [ok |-> TRUE, val |-> t]

\* the trigger that schedule_job builds for an active job, if it builds one
\* (build = FALSE: no branch applies, the expression has not five fields, or
\* CronTrigger raised and the exception was logged)
TriggerFor(job, t) ==
  LET time == IF job.schedule_time # NoTime THEN job.schedule_time ELSE t
      parts == job.cron_expression
      none == [build |-> FALSE, trig |-> DateTrigger(NoTime, t)]
  IN IF job.schedule_type = "once"
     THEN [build |-> TRUE, trig |-> DateTrigger(job.schedule_time, t)]
     ELSE IF parts # << >>
     THEN IF Len(parts) = 5 /\ CronFieldsValid(parts)
          THEN [build |-> TRUE,
                trig |-> CronTrigger(TokenValue(parts[2]), TokenValue(parts[3]),
                                     TokenValue(parts[4]), TokenValue(parts[5]))]
          ELSE none
     ELSE IF job.schedule_type = "daily"
     THEN [build |-> TRUE, trig |-> CronTrigger(HourOf(time), Star, Star, Star)]
     ELSE IF job.schedule_type = "weekly"
     THEN [build |-> TRUE, trig |-> CronTrigger(HourOf(time), Star, Star, Weekday(time))]
     ELSE IF job.schedule_type = "monthly"
     THEN [build |-> TRUE, trig |-> CronTrigger(HourOf(time), DayOf(time), Star, Star)]
     ELSE none

\* schedule_job without the removal of the job already registered
schedule_job_no_remove(trs, id, job, isRunning, t) ==
  LET tf == TriggerFor(job, t)
  IN IF job.is_active /\ tf.build
     THEN trs (+) SetToBag({[id |-> JobKey(id), trig |-> tf.trig,
                             next |-> IF isRunning THEN NextFireTime(tf.trig, NoTime, t)
                                      ELSE NoTime]})
     ELSE trs

\* schedule_job that keeps the trigger already registered under the id
schedule_job_keep_old(trs, id, job, isRunning, t) ==
  LET tf == TriggerFor(job, t)
  IN IF GetJob(trs, JobKey(id)) \/ ~job.is_active \/ ~tf.build THEN trs
     ELSE AddJob(trs, JobKey(id), tf.trig, isRunning, t)

\* schedule_job that removes the job registered under the id only when it
\* registers a new one
schedule_job_remove_late(trs, id, job, isRunning, t) ==
  LET key == JobKey(id)
      removed == IF GetJob(trs, key) THEN RemoveJob(trs, key) ELSE trs
      tf == TriggerFor(job, t)
  IN IF job.is_active /\ tf.build THEN AddJob(removed, key, tf.trig, isRunning, t)
     ELSE trs

\* schedule_job that returns for an inactive job before it removes anything
schedule_job_inactive_first(trs, id, job, isRunning, t) ==
  LET key == JobKey(id)
      removed == IF GetJob(trs, key) THEN RemoveJob(trs, key) ELSE trs
      tf == TriggerFor(job, t)
  IN IF ~job.is_active THEN trs
     ELSE IF tf.build THEN AddJob(removed, key, tf.trig, isRunning, t)
     ELSE removed

\* schedule_job(job, db_url): the scheduler's jobs after the call
schedule_job(trs, id, job, isRunning, t) ==
  LET key == JobKey(id)
      removed == IF GetJob(trs, key) THEN RemoveJob(trs, key) ELSE trs
      tf == TriggerFor(job, t)
  IN IF ~job.is_active THEN removed
     ELSE IF tf.build THEN AddJob(removed, key, tf.trig, isRunning, t)
     ELSE removed

\* load_all_jobs that returns after the first row
RECURSIVE load_all_jobs_first_only(_, _, _, _, _)
load_all_jobs_first_only(trs, ids, st, isRunning, t) ==
  IF ids = {} THEN trs
  ELSE LET id == CHOOSE x \in ids : \A y \in ids : x <= y
       IN schedule_job(trs, id, st[id], isRunning, t)

\* load_all_jobs(db, db_url): schedule_job for every active row, in id order
RECURSIVE load_all_jobs(_, _, _, _, _)
load_all_jobs(trs, ids, st, isRunning, t) ==
  IF ids = {} THEN trs
  ELSE LET id == CHOOSE x \in ids : \A y \in ids : x <= y
       IN load_all_jobs(schedule_job(trs, id, st[id], isRunning, t),
                        ids \ {id}, st, isRunning, t)

ActiveIds(st) == { id \in DOMAIN st : st[id].is_active }

\* a caller registers a job of the store
ScheduleJob(id) ==
  /\ id \in DOMAIN store
  /\ triggers' = schedule_job(triggers, id, store[id], running, now)
  /\ UNCHANGED <<now, ticks, store, running, starts, execs, runs, mail, logs, outcome>>

LoadAllJobs ==
  /\ triggers' = load_all_jobs(triggers, ActiveIds(store), store, running, now)
  /\ UNCHANGED <<now, ticks, store, running, starts, execs, runs, mail, logs, outcome>>

\* start_scheduler: scheduler.start() adds the pending jobs for real, each
\* replacing the job stored under its id, and computes their first fire times
StartScheduler ==
  /\ running \/ starts < MaxStarts
  /\ running' = TRUE
  /\ starts' = IF running THEN starts ELSE starts + 1
  /\ triggers' = IF running THEN triggers ELSE SetToBag({ [id |-> k, trig |-> (CHOOSE e \in Entries(triggers, k) : TRUE).trig,
                              next |-> NextFireTime((CHOOSE e \in Entries(triggers, k) : TRUE).trig,
                                                    NoTime, now)] :
                            k \in { e.id : e \in BagToSet(triggers) } })
  /\ UNCHANGED <<now, ticks, store, execs, runs, mail, logs, outcome>>

\* StopScheduler without the check of scheduler.running: the shutdown of a
\* scheduler that is not running drops its pending jobs
StopSchedulerAlways ==
  /\ running => \A s \in Slots : execs[s].pc = "idle"
  /\ running' = FALSE
  /\ triggers' = EmptyBag
  /\ UNCHANGED <<now, ticks, store, starts, execs, runs, mail, logs, outcome>>

\* stop_scheduler: scheduler.shutdown() waits for the running executions, then
\* the job store drops its jobs
StopScheduler ==
  /\ running => \A s \in Slots : execs[s].pc = "idle"
  /\ running' = FALSE
  /\ triggers' = IF running THEN EmptyBag ELSE triggers
  /\ UNCHANGED <<now, ticks, store, starts, execs, runs, mail, logs, outcome>>

\* ------------------------------------------------- the scheduler's thread
Due(e) == e.next # NoTime /\ e.next <= now

\* the executor's count of running instances of a job id
Instances(ex, id) == Cardinality({ s \in Slots : ex[s].pc # "idle" /\ ex[s].job = id })

FreeSlots(ex) == { s \in Slots : ex[s].pc = "idle" }

\* Submits without the limit on running instances
SubmitsUnlimited(e, ex, t) == e.next = t

\* the run is submitted unless it is later than misfire_grace_time or the job
\* already has max_instances running instances
Submits(e, ex, t) == e.next = t /\ Instances(ex, e.id[2]) < MaxInstances

\* the scheduler processes a due job: submits execute_scheduled_job(job.id) to
\* the executor, then moves the job to its trigger's next fire time or, when
\* the trigger has none, removes it
Fire(e) ==
  /\ running
  /\ e \in BagToSet(triggers)
  /\ Due(e)
  /\ Submits(e, execs, now) => FreeSlots(execs) # {}
  /\ execs' = IF Submits(e, execs, now)
               THEN LET s == CHOOSE x \in FreeSlots(execs) : \A y \in FreeSlots(execs) : x <= y
                    IN [execs EXCEPT ![s] = [job |-> e.id[2], pc |-> "load", i |-> 0, n |-> 0, sent |-> 0]]
               ELSE execs
  /\ triggers' = LET nxt == NextFireTime(e.trig, e.next, now)
                      rest == triggers (-) SetToBag({e})
                  IN IF nxt = NoTime THEN rest
                     ELSE rest (+) SetToBag({[e EXCEPT !.next = nxt]})
  /\ UNCHANGED <<now, ticks, store, running, starts, runs, mail, logs, outcome>>

\* ------------------------------------------------- execute_scheduled_job
\* LoadResult without the check of the template
LoadResultNoTemplateCheck(st, id) ==
  IF id \notin DOMAIN st \/ ~st[id].is_active THEN "noop" ELSE "send"

\* LoadResult without the check of is_active
LoadResultNoActiveCheck(st, id) ==
  IF id \notin DOMAIN st THEN "noop"
  ELSE IF st[id].template_id \notin TemplateIds THEN "notemplate"
  ELSE "send"

\* lines 27-35: how the execution goes on after loading the job and its template
LoadResult(st, id) ==
  IF id \notin DOMAIN st \/ ~st[id].is_active THEN "noop"
  ELSE IF st[id].template_id \notin TemplateIds THEN "notemplate"
  ELSE "send"

\* the job and its template are loaded; a missing or inactive job and a missing
\* template end the execution; otherwise the recipients are parsed and the bulk
\* send starts; a recipient list that does not parse raises, and the exception
\* is logged and rolled back
ExecLoad(s) ==
  LET id == execs[s].job IN
  /\ execs[s].pc = "load"
  /\ IF LoadResult(store, id) = "send" /\ json_loads(store[id].recipient_emails).ok
     THEN LET recipients == json_loads(store[id].recipient_emails).val
          IN /\ execs' = [execs EXCEPT ![s] =
                            [job |-> id, pc |-> IF Len(recipients) = 0 THEN "book" ELSE "send",
                             i |-> 1, n |-> Len(recipients), sent |-> 0]]
             /\ runs' = [runs EXCEPT ![id] = @ + 1]
             /\ outcome' = [outcome EXCEPT ![id] = "sending"]
     ELSE /\ execs' = [execs EXCEPT ![s] = IdleExec]
          /\ outcome' = [outcome EXCEPT ![id] =
                           IF LoadResult(store, id) = "send" THEN "error"
                           ELSE LoadResult(store, id)]
          /\ UNCHANGED runs
  /\ UNCHANGED <<now, ticks, store, running, starts, triggers, mail, logs>>

\* ExecSend that gives the execution up at the first recipient that failed
ExecSendAbortOnFailure(s, ok) ==
  LET id == execs[s].job IN
  /\ execs[s].pc = "send"
  /\ mail' = [mail EXCEPT ![id] = @ + (IF ok THEN 1 ELSE 0)]
  /\ logs' = [logs EXCEPT ![id] = @ + 1]
  /\ execs' = IF ok
              THEN [execs EXCEPT ![s].i = @ + 1, ![s].sent = @ + 1,
                                 ![s].pc = IF execs[s].i = execs[s].n THEN "book" ELSE "send"]
              ELSE [execs EXCEPT ![s] = IdleExec]
  /\ UNCHANGED <<now, ticks, store, running, starts, triggers, runs, outcome>>

\* send_bulk, one recipient: send_email returns True (the provider accepted the
\* email) or False, and writes one email log row either way
ExecSend(s, ok) ==
  LET id == execs[s].job IN
  /\ execs[s].pc = "send"
  /\ mail' = [mail EXCEPT ![id] = @ + (IF ok THEN 1 ELSE 0)]
  /\ logs' = [logs EXCEPT ![id] = @ + 1]
  /\ execs' = [execs EXCEPT ![s].i = @ + 1,
                             ![s].sent = @ + (IF ok THEN 1 ELSE 0),
                             ![s].pc = IF execs[s].i = execs[s].n THEN "book" ELSE "send"]
  /\ UNCHANGED <<now, ticks, store, running, starts, triggers, runs, outcome>>

\* Bookkeeping with the deactivation of a 'once' job left out
BookkeepingKeepActive(job, t) ==
  IF job.schedule_type # "once"
  THEN LET r == calculate_next_run(job, t)
       IN [ok |-> r.ok, row |-> [job EXCEPT !.last_run = t, !.next_run = r.val]]
  ELSE [ok |-> TRUE, row |-> [job EXCEPT !.last_run = t]]

\* Bookkeeping that also stamps next_run on a 'once' job
BookkeepingOnceNextRun(job, t) ==
  IF job.schedule_type # "once"
  THEN LET r == calculate_next_run(job, t)
       IN [ok |-> r.ok, row |-> [job EXCEPT !.last_run = t, !.next_run = r.val]]
  ELSE [ok |-> TRUE, row |-> [job EXCEPT !.last_run = t, !.next_run = t, !.is_active = FALSE]]

\* the job row after the bookkeeping of lines 52-61, or ok = FALSE when
\* calculate_next_run raised
Bookkeeping(job, t) ==
  IF job.schedule_type # "once"
  THEN LET r == calculate_next_run(job, t)
       IN [ok |-> r.ok, row |-> [job EXCEPT !.last_run = t, !.next_run = r.val]]
  ELSE [ok |-> TRUE, row |-> [job EXCEPT !.last_run = t, !.is_active = FALSE]]

\* the update of the job and its commit; the row is read again after the
\* commits of the send, so a row deleted meanwhile raises, and every exception
\* rolls the update back
ExecBook(s) ==
  LET id == execs[s].job IN
  /\ execs[s].pc = "book"
  /\ execs' = [execs EXCEPT ![s] = IdleExec]
  /\ IF id \in DOMAIN store /\ Bookkeeping(store[id], now).ok
     THEN /\ store' = [store EXCEPT ![id] = Bookkeeping(store[id], now).row]
          /\ outcome' = [outcome EXCEPT ![id] = "done"]
     ELSE /\ UNCHANGED store
          /\ outcome' = [outcome EXCEPT ![id] = "error"]
  /\ UNCHANGED <<now, ticks, running, starts, triggers, runs, mail, logs>>

\* ------------------------------------------------------------------ main.py
\* POST /api/jobs: ScheduledJob(...) is given custom_data, which is no column
\* of the ScheduledJob model, so the constructor raises TypeError before the
\* row is added: the request is answered 500 and nothing is stored or scheduled
CreateJob ==
  /\ UNCHANGED <<now, ticks, store, running, starts, triggers, execs, runs, mail, logs, outcome>>

\* DeleteJob without the removal of the scheduler's job
DeleteJobKeepTrigger(id, u) ==
  /\ IF id \in DOMAIN store /\ store[id].user_id = u
     THEN /\ store' = [x \in DOMAIN store \ {id} |-> store[x]]
          /\ UNCHANGED triggers
     ELSE UNCHANGED <<triggers, store>>
  /\ UNCHANGED <<now, ticks, running, starts, execs, runs, mail, logs, outcome>>

\* DeleteJob with the exception of scheduler.remove_job let through: when the
\* scheduler has no job under the id the request fails and the row stays
DeleteJobRaisesOnMissing(id, u) ==
  /\ IF id \in DOMAIN store /\ store[id].user_id = u /\ GetJob(triggers, JobKey(id))
     THEN /\ triggers' = RemoveJob(triggers, JobKey(id))
          /\ store' = [x \in DOMAIN store \ {id} |-> store[x]]
     ELSE UNCHANGED <<triggers, store>>
  /\ UNCHANGED <<now, ticks, running, starts, execs, runs, mail, logs, outcome>>

\* DeleteJob without the owner in the query's filter
DeleteJobAnyUser(id, u) ==
  /\ IF id \in DOMAIN store
     THEN /\ triggers' = IF GetJob(triggers, JobKey(id))
                          THEN RemoveJob(triggers, JobKey(id)) ELSE triggers
          /\ store' = [x \in DOMAIN store \ {id} |-> store[x]]
     ELSE UNCHANGED <<triggers, store>>
  /\ UNCHANGED <<now, ticks, running, starts, execs, runs, mail, logs, outcome>>

\* DELETE /api/jobs/{job_id} by user u
DeleteJob(id, u) ==
  /\ IF id \in DOMAIN store /\ store[id].user_id = u
     THEN /\ triggers' = IF GetJob(triggers, JobKey(id))
                          THEN RemoveJob(triggers, JobKey(id)) ELSE triggers
          /\ store' = [x \in DOMAIN store \ {id} |-> store[x]]
     ELSE UNCHANGED <<triggers, store>>
  /\ UNCHANGED <<now, ticks, running, starts, execs, runs, mail, logs, outcome>>

\* -------------------------------------------------------------------- clock
\* the scheduler's thread wakes up at the fire times: while it runs, time
\* does not pass a due job
NoneDue == running => \A e \in BagToSet(triggers) : ~Due(e)

Tick ==
  /\ NoneDue
  /\ ticks < MaxTicks
  /\ now' = now + 1
  /\ ticks' = ticks + 1
  /\ UNCHANGED <<store, running, starts, triggers, execs, runs, mail, logs, outcome>>

\* time passes until the next fire time
AdvanceToNextFire ==
  /\ running
  /\ NoneDue
  /\ ticks < MaxTicks
  /\ ticks' = ticks + 1
  /\ \E e \in BagToSet(triggers) :
       /\ e.next # NoTime
       /\ \A x \in BagToSet(triggers) : x.next # NoTime => e.next <= x.next
       /\ now' = e.next
  /\ UNCHANGED <<store, running, starts, triggers, execs, runs, mail, logs, outcome>>

\* the steps of the scheduler's thread, of the executions and of the clock
Internal ==
  \/ StartScheduler
  \/ StopScheduler
  \/ \E e \in BagToSet(triggers) : Fire(e)
  \/ \E s \in Slots : ExecLoad(s)
  \/ \E s \in Slots, ok \in BOOLEAN : ExecSend(s, ok)
  \/ \E s \in Slots : ExecBook(s)
  \/ CreateJob
  \/ \E id \in JobIds, u \in Users : DeleteJob(id, u)
  \/ Tick
  \/ AdvanceToNextFire

Next ==
  /\ \/ \E id \in JobIds : ScheduleJob(id)
     \/ LoadAllJobs
     \/ Internal
  /\ UNCHANGED <<last, sendvars>>

Spec == Init /\ [][Next]_vars

\* the same steps, with the calls of schedule_job and load_all_jobs observed:
\* last names the call that has just returned; schedule_job catches and logs
\* every exception of its registration (lines 190-191), so each call returns
NextObserved ==
  /\ \/ \E id \in JobIds : ScheduleJob(id) /\ last' = [op |-> "schedule_job", id |-> id]
     \/ LoadAllJobs /\ last' = [op |-> "load_all_jobs", id |-> 0]
     \/ Internal /\ last' = NoCall
  /\ UNCHANGED sendvars

SpecObserved == Init /\ [][NextObserved]_vars

\* ------------------------------------------------------------------- edits
\* the cron expressions that schedule_job cannot register
MalformedCrons == {CronFourFields, CronBadHour}

\* a caller gives a recurring job a malformed cron expression and registers
\* the job again
EditCron(id, cron) ==
  /\ id \in DOMAIN store
  /\ store[id].schedule_type # "once"
  /\ store[id].cron_expression \notin MalformedCrons
  /\ store' = [store EXCEPT ![id].cron_expression = cron]
  /\ triggers' = schedule_job(triggers, id, store'[id], running, now)
  /\ UNCHANGED <<now, ticks, running, starts, execs, runs, mail, logs, outcome>>

NextEdited ==
  \/ Next
  \/ (\E id \in JobIds, cron \in MalformedCrons : EditCron(id, cron)) /\ UNCHANGED <<last, sendvars>>

SpecEdited == Init /\ [][NextEdited]_vars

\* ------------------------------------------------------------------ faults
\* the commit of the bookkeeping fails in the first executions of a job only
MaxFailedRuns == 1

\* ExecBookCommitFails with the exception of db.commit() not caught: the
\* execution never returns
ExecBookCommitFailsUncaught(s) ==
  /\ execs[s].pc = "book"
  /\ execs[s].job \in DOMAIN store
  /\ runs[execs[s].job] <= MaxFailedRuns
  /\ execs' = [execs EXCEPT ![s].pc = "raised"]
  /\ outcome' = [outcome EXCEPT ![execs[s].job] = "error"]
  /\ UNCHANGED <<now, ticks, store, running, starts, triggers, runs, mail, logs>>

\* ExecBookCommitFails with a rollback that keeps the last_run already set
ExecBookCommitFailsHalfApplied(s) ==
  /\ execs[s].pc = "book"
  /\ execs[s].job \in DOMAIN store
  /\ runs[execs[s].job] <= MaxFailedRuns
  /\ execs' = [execs EXCEPT ![s] = IdleExec]
  /\ store' = [store EXCEPT ![execs[s].job].last_run = now]
  /\ outcome' = [outcome EXCEPT ![execs[s].job] = "error"]
  /\ UNCHANGED <<now, ticks, running, starts, triggers, runs, mail, logs>>

\* the bookkeeping of lines 52-61 when db.commit() raises: the exception is
\* logged, db.rollback() drops the whole update and the function returns
ExecBookCommitFails(s) ==
  /\ execs[s].pc = "book"
  /\ execs[s].job \in DOMAIN store
  /\ runs[execs[s].job] <= MaxFailedRuns
  /\ execs' = [execs EXCEPT ![s] = IdleExec]
  /\ outcome' = [outcome EXCEPT ![execs[s].job] = "error"]
  /\ UNCHANGED <<now, ticks, store, running, starts, triggers, runs, mail, logs>>

\* the rows of job 1 when the table may hold a recipient list that is no JSON
FaultProfiles(u) ==
  Profiles(u) \cup
  { [JobRow(u, 1, st, TNear, CronNone, TRUE) EXCEPT !.recipient_emails = Unparsable] :
      st \in {"once", "daily"} }

InitFaults ==
  /\ now = Now0
  /\ ticks = 0
  /\ starts = 0
  /\ \E ids \in SUBSET JobIds :
       store \in { f \in [ids -> UNION { FaultProfiles(u) : u \in Users }] :
                     \A id \in ids :
                       f[id] \in IF id = 1 THEN FaultProfiles(OwnerOf(id))
                                 ELSE OtherProfiles(OwnerOf(id)) }
  /\ running = FALSE
  /\ triggers = EmptyBag
  /\ execs = [s \in Slots |-> IdleExec]
  /\ runs = [id \in JobIds |-> 0]
  /\ mail = [id \in JobIds |-> 0]
  /\ logs = [id \in JobIds |-> 0]
  /\ outcome = [id \in JobIds |-> "none"]
  /\ last = NoCall
  /\ NoSend

\* the steps of the program, and the commits of the bookkeeping that fail
NextFaults ==
  \/ Next
  \/ (\E s \in Slots : ExecBookCommitFails(s)) /\ UNCHANGED <<last, sendvars>>

SpecFaults == InitFaults /\ [][NextFaults]_vars

\* ------------------------------------------------------- calculate_next_run
\* schedule times and clock readings that calculate_next_run is applied to
CalcTimes ==
  { MakeTime(2024, 1, 1, 0), TNear, TEndOfMonth, MakeTime(2024, 2, 29, 0),
    MakeTime(2024, 3, 31, 12), MakeTime(2024, 11, 30, 6),
    MakeTime(2024, 12, 15, 10), MakeTime(2024, 12, 31, 23) }

CalcNows == { Now0, MakeTime(2024, 12, 31, 23), MakeTime(2025, 6, 15, 12) }

\* a daily, weekly or monthly job with a schedule_time, run before or not, has
\* fired and its execution is through with the send
InitCalc ==
  /\ now \in CalcNows
  /\ ticks = MaxTicks
  /\ starts = MaxStarts
  /\ \E st \in {"daily", "weekly", "monthly"}, T \in CalcTimes, lr \in {NoTime, Now0} :
       store = (1 :> [JobRow(OwnerOf(1), 1, st, T, CronNone, TRUE) EXCEPT !.last_run = lr])
  /\ running = TRUE
  /\ triggers = AddJob(EmptyBag, JobKey(1), TriggerFor(store[1], now).trig, TRUE, now)
  /\ execs = [s \in Slots |-> IF s = 1
                               THEN [job |-> 1, pc |-> "book", i |-> NumRecipients + 1,
                                     n |-> NumRecipients, sent |-> NumRecipients]
                               ELSE IdleExec]
  /\ runs = [id \in JobIds |-> IF id = 1 THEN 1 ELSE 0]
  /\ mail = [id \in JobIds |-> IF id = 1 THEN NumRecipients ELSE 0]
  /\ logs = [id \in JobIds |-> IF id = 1 THEN NumRecipients ELSE 0]
  /\ outcome = [id \in JobIds |-> IF id = 1 THEN "sending" ELSE "none"]
  /\ last = NoCall
  /\ NoSend

\* the bookkeeping of the execution, which calls calculate_next_run
NextCalc == (\E s \in Slots : ExecBook(s)) /\ UNCHANGED <<last, sendvars>>

SpecCalc == InitCalc /\ [][NextCalc]_vars

\* ------------------------------------------------------------------ claims
\* an execution in slot s leaves the step pc in this step
Leaves(s, pc) == execs[s].pc = pc /\ execs'[s].pc # pc

Recurring(job) == job.schedule_type # "once"

\* C1: when the execution of a stored 'once' job ends its send step and does
\* its bookkeeping, the stored job is inactive afterwards, whatever number of
\* its recipients was sent to
C1_OnceDeactivated ==
  [][\A s \in Slots :
       (/\ Leaves(s, "book")
        /\ execs[s].job \in DOMAIN store
        /\ store[execs[s].job].schedule_type = "once")
       => (/\ execs[s].job \in DOMAIN store'
           /\ ~store'[execs[s].job].is_active)]_vars

\* C1 witness: an executed 'once' job, one recipient sent and one failed
C1_Witness ==
  \E id \in DOMAIN store :
    /\ store[id].schedule_type = "once" /\ outcome[id] = "done"
    /\ ~store[id].is_active /\ mail[id] = 1 /\ logs[id] = 2

\* the period of a recurring schedule type, in days (0: none is defined)
PeriodDays(job) ==
  CASE job.schedule_type = "daily" -> 1
    [] job.schedule_type = "weekly" -> 7
    [] OTHER -> 0

\* C2: at the second and every later execution of a daily or weekly job,
\* last_run does not go back and next_run is one period later than the
\* next_run the execution before stored
C2_NextRunAdvancesEachFire ==
  [][\A s \in Slots :
       (/\ Leaves(s, "book")
        /\ execs[s].job \in DOMAIN store
        /\ store[execs[s].job].schedule_type \in {"daily", "weekly"}
        /\ store[execs[s].job].last_run # NoTime)
       => (/\ store'[execs[s].job].last_run >= store[execs[s].job].last_run
           /\ store'[execs[s].job].next_run =
                PlusDays(store[execs[s].job].next_run, PeriodDays(store[execs[s].job])))]_vars

\* the anchor calculate_next_run starts from
Anchor(job, t) == IF job.schedule_time # NoTime THEN job.schedule_time ELSE t

\* C3: the execution of a stored recurring job leaves it active, with last_run
\* the time of the execution and next_run later than its anchor
C3_RecurringAdvances ==
  [][\A s \in Slots :
       (/\ Leaves(s, "book")
        /\ execs[s].job \in DOMAIN store
        /\ Recurring(store[execs[s].job]))
       => (/\ store'[execs[s].job].is_active
           /\ store'[execs[s].job].last_run = now
           /\ store'[execs[s].job].next_run > Anchor(store[execs[s].job], now))]_vars

EveryActiveJobHasOneTrigger ==
  \A id \in DOMAIN store :
    store[id].is_active => TriggerCount(triggers, JobKey(id)) = 1

\* C4 as claimed: while the scheduler runs, no step takes it from a state where
\* every active job has exactly one trigger to a state where one has not
C4_ExactlyOneTrigger ==
  [][(running /\ running' /\ EveryActiveJobHasOneTrigger)
       => EveryActiveJobHasOneTrigger']_vars

\* C4 as amended: no job id ever has more than one trigger
C4_AtMostOneTrigger ==
  \A id \in JobIds : TriggerCount(triggers, JobKey(id)) <= 1

\* C4 witness: a recurring job that was executed and has its one trigger
C4_Witness ==
  \E id \in DOMAIN store :
    /\ store[id].is_active /\ outcome[id] = "done"
    /\ TriggerCount(triggers, JobKey(id)) = 1

\* the one trigger that a registration at time t leaves for the job
Registered(trs, id, job, isRunning, t) ==
  /\ TriggerCount(trs, JobKey(id)) = 1
  /\ \A e \in Entries(trs, JobKey(id)) : e.trig = TriggerFor(job, t).trig

\* a step in which a call of schedule_job for the job id returns
Called(id) == last' = [op |-> "schedule_job", id |-> id]

\* C5 as claimed: every call of schedule_job for an active job leaves exactly
\* one trigger for it
C5_ExactlyOneAfterRegister ==
  [][\A id \in DOMAIN store :
       (Called(id) /\ store[id].is_active)
       => TriggerCount(triggers', JobKey(id)) = 1]_vars

\* C5 as amended: every call of schedule_job for an active job whose schedule
\* builds a trigger leaves exactly one trigger for it, the one of this call
C5_OneTriggerAfterRegister ==
  [][\A id \in DOMAIN store :
       (Called(id) /\ store[id].is_active /\ TriggerFor(store[id], now).build)
       => Registered(triggers', id, store[id], running, now)]_vars

\* C5 witness: a 'once' job whose first trigger fired has just been registered
\* again, while it executes, and has one trigger
C5_Witness ==
  \E id \in DOMAIN store :
    /\ last = [op |-> "schedule_job", id |-> id]
    /\ store[id].schedule_type = "once" /\ store[id].is_active
    /\ outcome[id] = "sending"
    /\ TriggerCount(triggers, JobKey(id)) = 1

\* C6: a job whose template is missing is never sent for, and keeps the
\* last_run, next_run and is_active it was stored with
C6_MissingTemplateNoChange ==
  \A id \in DOMAIN store :
    store[id].template_id \notin TemplateIds
    => (/\ store[id].last_run = NoTime
        /\ store[id].next_run = store[id].schedule_time
        /\ store[id].is_active
        /\ runs[id] = 0 /\ mail[id] = 0 /\ logs[id] = 0)

\* C6 witness: the execution of a 'once' job ended for its missing template
C6_Witness ==
  \E id \in DOMAIN store :
    /\ outcome[id] = "notemplate" /\ store[id].schedule_type = "once"
    /\ store[id].is_active /\ ~GetJob(triggers, JobKey(id))

\* C7: an execution that finds its job missing or inactive ends there, and
\* changes no job, sends no email and writes no email log
C7_MissingOrInactiveNoOp ==
  [][\A s \in Slots :
       (/\ Leaves(s, "load")
        /\ (execs[s].job \notin DOMAIN store \/ ~store[execs[s].job].is_active))
       => (/\ execs'[s] = IdleExec
           /\ UNCHANGED <<store, runs, mail, logs>>)]_vars

\* C7 witness: an execution ended for its job being inactive
C7_Witness ==
  \E id \in DOMAIN store : outcome[id] = "noop" /\ ~store[id].is_active

\* C8: a 'once' job is sent for at most once, and has no trigger once it was
\* executed and deactivated
C8_OnceAtMostOnceAndDeregistered ==
  \A id \in DOMAIN store :
    store[id].schedule_type = "once"
    => (/\ runs[id] <= 1
        /\ (runs[id] = 1 /\ ~store[id].is_active) => ~GetJob(triggers, JobKey(id)))

\* C9: no job id has two executions in flight
C9_OneInFlight ==
  \A id \in JobIds : Instances(execs, id) <= 1

\* C9 witness: a daily job still in its first execution when its next fire
\* time came
C9_Witness ==
  \E id \in DOMAIN store :
    /\ store[id].schedule_type = "daily" /\ store[id].schedule_time = TNear
    /\ Instances(execs, id) = 1 /\ runs[id] = 1
    /\ now > TNear
    /\ \E e \in Entries(triggers, JobKey(id)) : e.next > PlusDays(TNear, 1)

\* C10: a job that is deleted has no trigger afterwards, and an execution that
\* then finds the job missing ends without any effect
C10_DeleteRemovesBoth ==
  [][/\ \A id \in DOMAIN store :
          id \notin DOMAIN store' => ~GetJob(triggers', JobKey(id))
     /\ \A s \in Slots :
          (Leaves(s, "load") /\ execs[s].job \notin DOMAIN store)
          => (execs'[s] = IdleExec /\ UNCHANGED <<store, runs, mail, logs, triggers>>)]_vars

\* C10 witness: the fire of a job was under way when the job was deleted, and
\* its execution ended without any effect
C10_Witness ==
  \E id \in JobIds :
    /\ id \notin DOMAIN store /\ outcome[id] = "noop"
    /\ ~GetJob(triggers, JobKey(id))

\* C11: the stored next_run of a job changes only in the step that ends the
\* execution of a recurring job with its bookkeeping; every other step, the
\* registrations, the start and stop of the scheduler, the fires, the aborted
\* executions and the execution of a 'once' job included, leaves it as it was
C11_NextRunChangesOnlyInBookkeeping ==
  [][\A id \in DOMAIN store \cap DOMAIN store' :
       store'[id].next_run # store[id].next_run
       => \E s \in Slots :
            /\ Leaves(s, "book") /\ execs[s].job = id
            /\ Recurring(store[id])
            /\ store'[id].next_run = calculate_next_run(store[id], now).val]_vars

\* C11 witness: a daily job was executed and its next_run moved off the
\* schedule_time it was created with, while its trigger stays registered
C11_Witness ==
  \E id \in DOMAIN store :
    /\ store[id].schedule_type = "daily" /\ outcome[id] = "done"
    /\ store[id].schedule_time # NoTime
    /\ store[id].next_run = PlusDays(store[id].schedule_time, 1)
    /\ GetJob(triggers, JobKey(id))

\* C12: an execution that has sent to its last recipient goes on to its
\* bookkeeping whatever number of recipients failed, and the bookkeeping of a
\* stored job records last_run and advances next_run or clears is_active; only
\* calculate_next_run raising, which no recipient's outcome influences, stops it
C12_BookkeepingWhateverFailed ==
  [][\A s \in Slots :
       /\ Leaves(s, "send")
          => (execs'[s].pc = "book" /\ execs'[s].job = execs[s].job /\ UNCHANGED store)
       /\ (/\ Leaves(s, "book")
           /\ execs[s].job \in DOMAIN store
           /\ Bookkeeping(store[execs[s].job], now).ok)
          => (/\ store'[execs[s].job].last_run = now
              /\ IF store[execs[s].job].schedule_type = "once"
                 THEN ~store'[execs[s].job].is_active
                 ELSE store'[execs[s].job].next_run =
                        calculate_next_run(store[execs[s].job], now).val)]_vars

\* C12 witness: every recipient of a daily job failed and the bookkeeping of
\* the execution was done
C12_Witness ==
  \E id \in DOMAIN store :
    /\ store[id].schedule_type = "daily" /\ outcome[id] = "done"
    /\ runs[id] = 1 /\ mail[id] = 0 /\ logs[id] = NumRecipients
    /\ store[id].last_run # NoTime /\ store[id].next_run # store[id].schedule_time

\* the ways an execution that returned can have ended
Outcomes == {"noop", "notemplate", "done", "error"}

\* C13: every step of an execution, its failures included (a recipient list
\* that does not parse, recipients that fail, calculate_next_run raising, the
\* commit failing), goes on to a later step or returns; it leaves the scheduler
\* running, with all its triggers, and changes no other job
C13_FailuresStayInside ==
  [][\A s \in Slots : \A pc \in {"load", "send", "book"} :
       Leaves(s, pc)
       => (/\ execs'[s].pc \in {"send", "book", "idle"}
           /\ execs'[s].pc = "idle"
              => (execs'[s] = IdleExec /\ outcome'[execs[s].job] \in Outcomes)
           /\ UNCHANGED <<running, triggers>>
           /\ \A j \in DOMAIN store \ {execs[s].job} :
                j \in DOMAIN store' /\ store'[j] = store[j])]_vars

\* C13 witness: the execution of a job whose recipient list does not parse
\* has ended, the scheduler runs and holds the other job's trigger
C13_Witness ==
  \E id \in DOMAIN store :
    /\ store[id].recipient_emails = Unparsable /\ outcome[id] = "error"
    /\ runs[id] = 0 /\ running
    /\ \A s \in Slots : execs[s].job # id
    /\ \E j \in DOMAIN store \ {id} : GetJob(triggers, JobKey(j))

\* the registration of an active job fails: no branch of schedule_job applies,
\* the cron expression has not five fields, or CronTrigger raised
RegistrationFails(job, t) == job.is_active /\ ~TriggerFor(job, t).build

\* C14: a call of schedule_job whose registration fails ends by raising to
\* its caller
C14_RegistrationFailureRaised ==
  [][\A id \in DOMAIN store :
       (/\ last'.id = id
        /\ last'.op \in {"schedule_job", "schedule_job_raised"}
        /\ RegistrationFails(store[id], now))
       => last'.op = "schedule_job_raised"]_vars

\* schedule_job cannot build a trigger from the job's cron expression
Malformed(job) ==
  /\ job.schedule_type # "once"
  /\ job.cron_expression # << >>
  /\ ~(Len(job.cron_expression) = 5 /\ CronFieldsValid(job.cron_expression))

\* C15: a recurring job whose cron expression is malformed has no trigger once
\* schedule_job was called for it, also when it had one before the call; it
\* stays active, and none of its executions starts
C15_MalformedCronNotRegistered ==
  [][\A id \in DOMAIN store' :
       Malformed(store'[id])
       => (/\ ~GetJob(triggers', JobKey(id))
           /\ store'[id].is_active
           /\ \A s \in Slots :
                (execs'[s].job = id /\ execs'[s].pc = "load") => execs[s].pc = "load")]_vars

\* C15 witness: a job that has fired and was executed got a malformed cron
\* expression, and the call of schedule_job has left it without its trigger
C15_Witness ==
  \E id \in DOMAIN store :
    /\ Malformed(store[id]) /\ store[id].is_active
    /\ outcome[id] = "done" /\ running
    /\ ~GetJob(triggers, JobKey(id))

\* C16: when the bookkeeping of an execution does not get committed, the
\* execution returns in that step: it sends nothing more and writes no log,
\* the scheduler's jobs are as before, and the stored job keeps the last_run,
\* next_run and is_active it had
C16_CommitFailureRollsBack ==
  [][\A s \in Slots :
       (/\ Leaves(s, "book")
        /\ execs[s].job \in DOMAIN store
        /\ outcome'[execs[s].job] = "error")
       => (/\ execs'[s] = IdleExec
           /\ UNCHANGED <<store, runs, mail, logs, triggers>>)]_vars

\* C16 witness: a daily job was sent for once, to both recipients, and the
\* commit of its bookkeeping failed: it has no last_run and its first next_run
C16_Witness ==
  \E id \in DOMAIN store :
    /\ store[id].schedule_type = "daily" /\ outcome[id] = "error"
    /\ runs[id] = 1 /\ mail[id] = NumRecipients
    /\ \A s \in Slots : execs[s].job # id
    /\ store[id].last_run = NoTime /\ store[id].next_run = store[id].schedule_time
    /\ store[id].is_active

\* the month after the month of t, and its year
NextMonth(t) == IF MonthOf(t) = 12 THEN 1 ELSE MonthOf(t) + 1
NextMonthYear(t) == IF MonthOf(t) = 12 THEN YearOf(t) + 1 ELSE YearOf(t)

\* v is T plus one period of the schedule type, at T's time of day
OnePeriodLater(st, T, v) ==
  CASE st = "daily" -> v = T + 24
    [] st = "weekly" -> v = T + 7 * 24
    [] st = "monthly" -> /\ YearOf(v) = NextMonthYear(T) /\ MonthOf(v) = NextMonth(T)
                         /\ DayOf(v) = DayOf(T) /\ HourOf(v) = HourOf(T)
    [] OTHER -> FALSE

\* C17: for every stored daily, weekly or monthly job with a schedule_time T,
\* calculate_next_run returns T plus one period, whatever the clock reads and
\* whatever last_run is
C17_OnePeriodFromScheduleTime ==
  \A id \in DOMAIN store :
    (store[id].schedule_type \in {"daily", "weekly", "monthly"}
       /\ store[id].schedule_time # NoTime)
    => \A t \in CalcNows \cup {now}, lr \in {NoTime, Now0, store[id].last_run} :
         LET r == calculate_next_run([store[id] EXCEPT !.last_run = lr], t)
         IN r.ok /\ OnePeriodLater(store[id].schedule_type, store[id].schedule_time, r.val)

\* the anchor's day of month does not exist in the month that follows
NoSuchDayNextMonth(t) == DayOf(t) > DaysInMonth(NextMonthYear(t), NextMonth(t))

\* the last day of the month that follows, at t's time of day
ClampedNextMonth(t) ==
  MakeTime(NextMonthYear(t), NextMonth(t),
           DaysInMonth(NextMonthYear(t), NextMonth(t)), HourOf(t))

\* C18: the execution of a monthly job whose day of month does not exist in
\* the following month records last_run and sets next_run to the last day of
\* that month
C18_MonthlyClampedToMonthEnd ==
  [][\A s \in Slots :
       (/\ Leaves(s, "book")
        /\ execs[s].job \in DOMAIN store
        /\ store[execs[s].job].schedule_type = "monthly"
        /\ store[execs[s].job].schedule_time # NoTime
        /\ NoSuchDayNextMonth(store[execs[s].job].schedule_time))
       => (/\ store'[execs[s].job].last_run = now
           /\ store'[execs[s].job].next_run =
                ClampedNextMonth(store[execs[s].job].schedule_time))]_vars

\* a step in which a call of load_all_jobs returns
Loaded == last' = [op |-> "load_all_jobs", id |-> 0]

\* the job ids that have a trigger
TriggerIds(trs) == { id \in JobIds : GetJob(trs, JobKey(id)) }

\* C19 as claimed: after load_all_jobs the job ids with a trigger are the ids
\* of the active jobs, and loading again changes nothing
C19_LoadRegistersExactlyActive ==
  [][Loaded
     => (/\ TriggerIds(triggers') = ActiveIds(store)
         /\ load_all_jobs(triggers', ActiveIds(store), store, running, now) = triggers')]_vars

\* C19 as amended: after load_all_jobs every active job whose schedule builds
\* a trigger has exactly one trigger, the one this load built; an active job
\* whose registration fails has none; and what is registered under the id of
\* an inactive or missing job is as it was before the load
C19_LoadRegistersBuildable ==
  [][Loaded
     => \A id \in JobIds :
          IF id \in ActiveIds(store)
          THEN IF TriggerFor(store[id], now).build
               THEN Registered(triggers', id, store[id], running, now)
               ELSE ~GetJob(triggers', JobKey(id))
          ELSE /\ Entries(triggers', JobKey(id)) = Entries(triggers, JobKey(id))
               /\ TriggerCount(triggers', JobKey(id)) = TriggerCount(triggers, JobKey(id))]_vars

\* C19 witness: load_all_jobs has just returned on the running scheduler; an
\* executed 'once' job is inactive and has no trigger, an active job has one
C19_Witness ==
  /\ last = [op |-> "load_all_jobs", id |-> 0]
  /\ running
  /\ \E id \in DOMAIN store :
       /\ store[id].schedule_type = "once" /\ ~store[id].is_active
       /\ outcome[id] = "done" /\ ~GetJob(triggers, JobKey(id))
  /\ \E j \in DOMAIN store :
       store[j].is_active /\ TriggerCount(triggers, JobKey(j)) = 1

\* C20 as claimed: a call of schedule_job for an inactive job leaves the
\* scheduler's jobs as they were
C20_InactiveRegisterNoOp ==
  [][\A id \in DOMAIN store :
       (Called(id) /\ ~store[id].is_active) => triggers' = triggers]_vars

\* C20 as amended: a call of schedule_job for an inactive job schedules
\* nothing and removes the trigger registered under the job's id, if there is
\* one; the triggers of the other ids are as they were
C20_InactiveRegisterRemoves ==
  [][\A id \in DOMAIN store :
       (Called(id) /\ ~store[id].is_active)
       => (/\ ~GetJob(triggers', JobKey(id))
           /\ BagToSet(triggers') = BagToSet(triggers) \ Entries(triggers, JobKey(id))
           /\ \A e \in BagToSet(triggers') : CopiesIn(e, triggers') = CopiesIn(e, triggers))]_vars

\* C20 witness: schedule_job has just been called for an executed, inactive
\* 'once' job; nothing is registered under its id, the other job has its trigger
C20_Witness ==
  \E id \in DOMAIN store :
    /\ last = [op |-> "schedule_job", id |-> id]
    /\ store[id].schedule_type = "once" /\ ~store[id].is_active /\ outcome[id] = "done"
    /\ ~GetJob(triggers, JobKey(id))
    /\ \E j \in DOMAIN store \ {id} : GetJob(triggers, JobKey(j))

\* -------------------------------------------------------------------- calls
\* the steps of the scheduler's thread, of the executions and of the clock,
\* without the calls made from outside
Steps ==
  \/ \E e \in BagToSet(triggers) : Fire(e)
  \/ \E s \in Slots : ExecLoad(s)
  \/ \E s \in Slots, ok \in BOOLEAN : ExecSend(s, ok)
  \/ \E s \in Slots : ExecBook(s)
  \/ Tick
  \/ AdvanceToNextFire

StartCall == [op |-> "start_scheduler", id |-> 0]
StopCall == [op |-> "stop_scheduler", id |-> 0]
DeleteCall(id, u) == [op |-> "delete_job", id |-> id, user |-> u]

\* every call observed: those of schedule_job and load_all_jobs, and those of
\* start_scheduler, stop_scheduler and delete_job, each named by last when it
\* has returned
NextCalls ==
  /\ \/ \E id \in JobIds : ScheduleJob(id) /\ last' = [op |-> "schedule_job", id |-> id]
     \/ LoadAllJobs /\ last' = [op |-> "load_all_jobs", id |-> 0]
     \/ StartScheduler /\ last' = StartCall
     \/ StopScheduler /\ last' = StopCall
     \/ \E id \in JobIds, u \in Users : DeleteJob(id, u) /\ last' = DeleteCall(id, u)
     \/ Steps /\ last' = NoCall
  /\ UNCHANGED sendvars

SpecCalls == Init /\ [][NextCalls]_vars

\* C21: start_scheduler on a running scheduler and stop_scheduler on a stopped
\* one return and leave the scheduler, its jobs, the executions and the job
\* store as they were; stop_scheduler leaves the scheduler stopped, and while
\* it is stopped no trigger fires: no execution begins and no job is consumed
C21_StartStopIdempotent ==
  [][/\ (last' = StartCall /\ running) => UNCHANGED <<running, triggers, execs, store, starts>>
     /\ (last' = StopCall /\ ~running) => UNCHANGED <<running, triggers, execs, store, starts>>
     /\ last' = StopCall => ~running'
     /\ ~running => /\ runs' = runs
                    /\ \A s \in Slots : execs[s].pc = "idle" /\ execs'[s].pc = "idle"
                    /\ last' = NoCall => triggers' = triggers]_vars

\* C21 witness: the scheduler was started and stopped, a job was registered
\* with the stopped scheduler, and stop_scheduler has just been called again:
\* the pending job is still there and nothing runs
C21_Witness ==
  /\ last = StopCall /\ ~running /\ starts = MaxStarts
  /\ triggers # EmptyBag
  /\ \A s \in Slots : execs[s].pc = "idle"

\* the triggers registered under the other ids are the same before and after
OthersUnchanged(id) ==
  \A e \in BagToSet(triggers) \union BagToSet(triggers') :
    e.id # JobKey(id) => CopiesIn(e, triggers') = CopiesIn(e, triggers)

\* C22: delete_job by the owner of a job that has no trigger in the scheduler
\* returns, deletes the job's row and leaves the scheduler's jobs as they
\* were; schedule_job for a job that has no trigger returns and leaves the
\* triggers of the other ids as they were
C22_DeregisterAbsentSucceeds ==
  [][\A id \in DOMAIN store :
       ~GetJob(triggers, JobKey(id))
       => /\ last' = DeleteCall(id, store[id].user_id)
             => (id \notin DOMAIN store' /\ triggers' = triggers)
          /\ last' = [op |-> "schedule_job", id |-> id] => OthersUnchanged(id)]_vars

\* C22 witness: an executed 'once' job, whose trigger was consumed, has just
\* been deleted by its owner; the other job has its trigger
C22_Witness ==
  \E id \in JobIds :
    /\ last = DeleteCall(id, OwnerOf(id))
    /\ id \notin DOMAIN store /\ outcome[id] = "done" /\ runs[id] = 1
    /\ ~GetJob(triggers, JobKey(id))
    /\ \E j \in DOMAIN store : TriggerCount(triggers, JobKey(j)) = 1

\* C30: a delete request for a job id that has no row, or whose row belongs to
\* another user, takes the not-found branch: the job store, the scheduler's
\* jobs and the executions are as they were
C30_ForeignDeleteChangesNothing ==
  [][\A id \in JobIds, u \in Users :
       (/\ last' = DeleteCall(id, u)
        /\ (id \notin DOMAIN store \/ store[id].user_id # u))
       => UNCHANGED <<store, triggers, running, execs>>]_vars

\* C30 witness: a user who does not own a registered job has just asked to
\* delete it; the row and its trigger are there
C30_Witness ==
  \E id \in DOMAIN store, u \in Users :
    /\ last = DeleteCall(id, u)
    /\ store[id].user_id # u
    /\ TriggerCount(triggers, JobKey(id)) = 1

\* C28: once the row of a job is deleted, no further email of the job is
\* accepted by the provider and the row does not come back
C28_NoMailAfterDelete ==
  [][\A id \in JobIds :
       (runs[id] > 0 /\ id \notin DOMAIN store)
       => (mail'[id] = mail[id] /\ id \notin DOMAIN store')]_vars

\* ----------------------------------------------------------------- liveness
\* the 'once' rows among the rows the process may find
OnceProfiles(u) == { r \in Profiles(u) \union OtherProfiles(u) : r.schedule_type = "once" }

InitLive ==
  /\ Init
  /\ \A id \in DOMAIN store : store[id] \in OnceProfiles(OwnerOf(id))

\* the scheduler is started and stays up, no job is deleted: jobs are
\* registered, fire and are executed while time passes
NextLive ==
  /\ \/ \E id \in JobIds : ScheduleJob(id)
     \/ LoadAllJobs
     \/ StartScheduler
     \/ Steps
  /\ UNCHANGED <<last, sendvars>>

\* the scheduler's thread processes every due job, every executor thread that
\* has begun an execution goes on to its end, and time passes however often a
\* caller registers jobs in between
Fairness ==
  /\ \A id \in JobIds :
       WF_vars((\E e \in Entries(triggers, JobKey(id)) : Fire(e)) /\ UNCHANGED <<last, sendvars>>)
  /\ \A s \in Slots :
       /\ WF_vars(ExecLoad(s) /\ UNCHANGED <<last, sendvars>>)
       /\ WF_vars((\E ok \in BOOLEAN : ExecSend(s, ok)) /\ UNCHANGED <<last, sendvars>>)
       /\ WF_vars(ExecBook(s) /\ UNCHANGED <<last, sendvars>>)
  /\ SF_vars((Tick \/ AdvanceToNextFire) /\ UNCHANGED <<last, sendvars>>)

SpecLive == InitLive /\ [][NextLive]_vars /\ Fairness

\* an active 'once' job with an existing template has its trigger in the
\* running scheduler
OnceRegistered(id) ==
  /\ id \in DOMAIN store
  /\ store[id].schedule_type = "once" /\ store[id].is_active
  /\ store[id].template_id \in TemplateIds
  /\ running /\ GetJob(triggers, JobKey(id))

OnceExecuted(id) ==
  id \in DOMAIN store /\ ~store[id].is_active /\ outcome[id] = "done"

\* C25: every active 'once' job with an existing template that is registered
\* with the running scheduler is eventually executed and ends inactive,
\* whatever its schedule_time
C25_OnceEventuallyExecuted ==
  \A id \in JobIds : OnceRegistered(id) ~> OnceExecuted(id)

\* the same for the triggers whose fire time has not passed when they are seen
C25_OnceFutureEventuallyExecuted ==
  \A id \in JobIds :
    (OnceRegistered(id) /\ \E e \in Entries(triggers, JobKey(id)) : e.next >= now)
    ~> OnceExecuted(id)

\* ------------------------------------------------------------ email_service.py
\* send_email's default for max_retries
MaxRetries == 3

\* ApiKey rows that pass the filters of get_active_api_key; a user_id that is
\* None or 0 (here 0) adds no filter
ActiveKeys(ks, user_id) ==
  { k \in KeyIds : ks[k].is_active /\ (user_id # 0 => ks[k].user_id = user_id) }

\* get_active_api_key with the order of the query reversed: the most recently
\* used key first
get_active_api_key_most_recent(ks, preferred, user_id) ==
  IF preferred # NoKey /\ preferred \in ActiveKeys(ks, user_id) THEN {preferred}
  ELSE { k \in ActiveKeys(ks, user_id) :
           \A j \in ActiveKeys(ks, user_id) : ks[k].last_used >= ks[j].last_used }

\* get_active_api_key(preferred_key_id, user_id): the keys the query may
\* return, none when it returns None; order_by(last_used.asc().nullsfirst())
\* leaves the choice among equal last_used to the database
get_active_api_key(ks, preferred, user_id) ==
  IF preferred # NoKey /\ preferred \in ActiveKeys(ks, user_id) THEN {preferred}
  ELSE { k \in ActiveKeys(ks, user_id) :
           \A j \in ActiveKeys(ks, user_id) : ks[k].last_used <= ks[j].last_used }

\* datetime.utcnow() of line 114: later than every timestamp written before
NewStamp(ks) ==
  1 + (CHOOSE x \in { ks[k].last_used : k \in KeyIds } :
         \A y \in { ks[k].last_used : k \in KeyIds } : y <= x)

\* the placeholder values the creator of a job gave with the request:
\* create_job collects them and hands them to ScheduledJob as custom_data
custom_data(id) == "promo" :> "sale"

\* the custom_placeholders argument of the executor's call of send_bulk: the
\* call has none
ExecutorPlaceholders(id) == << >>

\* table recipients: the first address of a list has a row, with a name and
\* no custom fields
HasRecipientRow(email) == email = 1

\* send_bulk lines 159-186: the variables of one recipient's email
BulkVariables(custom_placeholders, email) ==
  LET row == IF HasRecipientRow(email)
             THEN "name" :> "Ann" @@ "email" :> ToString(email)
             ELSE << >>
      merged == row @@ custom_placeholders
  IN merged @@ "email" :> ToString(email)

\* the job and the recipient a slot's send_email call is for
CallJob(s) == execs[s].job
CallUser(s) == store[CallJob(s)].user_id
CallEmail(s) == json_loads(store[CallJob(s)].recipient_emails).val[execs[s].i]

\* send_email lines 76-93: the variables, the choice of the key; without a key
\* the call logs 'failed' and returns False
SendEmail(s) ==
  /\ execs[s].pc = "send"
  /\ calls[s].pc = "idle"
  /\ LET found == get_active_api_key(keys, NoKey, CallUser(s))
         c == [IdleCall EXCEPT
                 !.variables = BulkVariables(ExecutorPlaceholders(CallJob(s)), CallEmail(s))]
     IN IF found = {}
        THEN calls' = [calls EXCEPT ![s] =
                         [c EXCEPT !.pc = "return", !.logged = <<"failed">>]]
        ELSE \E k \in found :
               calls' = [calls EXCEPT ![s] = [c EXCEPT !.pc = "set_key", !.key = k]]
  /\ UNCHANGED <<now, ticks, store, running, starts, triggers, execs, runs, mail, logs,
                 outcome, keys, resend_api_key>>

\* line 98: resend.api_key = api_key.key_value, an attribute of the module
\* that every thread of the process reads and writes
SetKey(s) ==
  /\ calls[s].pc = "set_key"
  /\ resend_api_key' = calls[s].key
  /\ calls' = [calls EXCEPT ![s].pc = "provider"]
  /\ UNCHANGED <<now, ticks, store, running, starts, triggers, execs, runs, mail, logs,
                 outcome, keys>>

\* AttemptFailed with the last attempt recognised one round late
AttemptFailedExtraAttempt(c) ==
  IF c.attempt = MaxRetries
  THEN [c EXCEPT !.pc = "return", !.logged = Append(@, "failed"), !.result = FALSE]
  ELSE [c EXCEPT !.pc = "set_key", !.attempt = @ + 1]

\* lines 126-136: the attempt raised; the last attempt logs 'failed' and the
\* call returns False, an earlier one goes round the loop
AttemptFailed(c) ==
  IF c.attempt = MaxRetries - 1
  THEN [c EXCEPT !.pc = "return", !.logged = Append(@, "failed"), !.result = FALSE]
  ELSE [c EXCEPT !.pc = "set_key", !.attempt = @ + 1]

\* line 110: resend.Emails.send(params) sends with the key that is in
\* resend.api_key at that moment; the provider accepts the email or the call
\* raises
ProviderSend(s, ok) ==
  /\ calls[s].pc = "provider"
  /\ calls' = [calls EXCEPT ![s] =
                 IF ok THEN [@ EXCEPT !.pc = "commit", !.accepted = @ + 1,
                                      !.via = @ \union {resend_api_key}]
                 ELSE AttemptFailed(@)]
  /\ UNCHANGED <<now, ticks, store, running, starts, triggers, execs, runs, mail, logs,
                 outcome, keys, resend_api_key>>

\* lines 113-115: the usage of the chosen key is counted and stamped
CommitUsage(s) ==
  /\ calls[s].pc = "commit"
  /\ keys' = [keys EXCEPT ![calls[s].key].usage_count = @ + 1,
                          ![calls[s].key].last_used = NewStamp(keys)]
  /\ calls' = [calls EXCEPT ![s].pc = "log"]
  /\ UNCHANGED <<now, ticks, store, running, starts, triggers, execs, runs, mail, logs,
                 outcome, resend_api_key>>

\* lines 118-124: the log row 'sent' is written and the call returns True
LogSent(s) ==
  /\ calls[s].pc = "log"
  /\ calls' = [calls EXCEPT ![s].pc = "return", ![s].logged = Append(@, "sent"),
                            ![s].result = TRUE]
  /\ UNCHANGED <<now, ticks, store, running, starts, triggers, execs, runs, mail, logs,
                 outcome, keys, resend_api_key>>

\* send_bulk lines 202-205 and its loop: the call has returned, the result is
\* counted and the execution goes on to the next recipient or to its
\* bookkeeping
SendReturn(s) ==
  LET id == CallJob(s) IN
  /\ calls[s].pc = "return"
  /\ mail' = [mail EXCEPT ![id] = @ + calls[s].accepted]
  /\ logs' = [logs EXCEPT ![id] = @ + Len(calls[s].logged)]
  /\ execs' = [execs EXCEPT ![s].i = @ + 1,
                             ![s].sent = @ + (IF calls[s].result THEN 1 ELSE 0),
                             ![s].pc = IF execs[s].i = execs[s].n THEN "book" ELSE "send"]
  /\ calls' = [calls EXCEPT ![s] = IdleCall]
  /\ UNCHANGED <<now, ticks, store, running, starts, triggers, runs, outcome, keys,
                 resend_api_key>>

\* the rows of api_keys an execution may find: each key active or not, never
\* used or used once at a time of its own
KeyTables ==
  { t \in [KeyIds -> UNION { { KeyRow(KeyOwner(k), act, used, IF used = 0 THEN 0 ELSE 1) :
                                 act \in BOOLEAN, used \in {0, k} } : k \in KeyIds }] :
      \A k \in KeyIds : t[k].user_id = KeyOwner(k) /\ t[k].last_used \in {0, k} }

\* the executions of the daily jobs in the slots of the set busy have loaded
\* their job and its template and are about to send to their first recipient
InitSending(busy) ==
  /\ now = Now0
  /\ ticks = MaxTicks
  /\ starts = MaxStarts
  /\ store = [id \in JobIds |-> JobRow(OwnerOf(id), 1, "daily", TNear, CronNone, TRUE)]
  /\ running = TRUE
  /\ triggers = EmptyBag
  /\ execs = [s \in Slots |->
                IF s \in busy
                THEN [job |-> s, pc |-> "send", i |-> 1, n |-> NumRecipients, sent |-> 0]
                ELSE IdleExec]
  /\ runs = [id \in JobIds |-> IF id \in busy THEN 1 ELSE 0]
  /\ mail = [id \in JobIds |-> 0]
  /\ logs = [id \in JobIds |-> 0]
  /\ outcome = [id \in JobIds |-> IF id \in busy THEN "sending" ELSE "none"]
  /\ last = NoCall
  /\ keys \in KeyTables
  /\ resend_api_key = NoKey
  /\ calls = [s \in Slots |-> IdleCall]

\* each job is being executed in a worker thread of its own
InitSend == InitSending(Slots \cap JobIds)

NextSend ==
  /\ \/ \E s \in Slots : SendEmail(s)
     \/ \E s \in Slots : SetKey(s)
     \/ \E s \in Slots, ok \in BOOLEAN : ProviderSend(s, ok)
     \/ \E s \in Slots : CommitUsage(s)
     \/ \E s \in Slots : LogSent(s)
     \/ \E s \in Slots : SendReturn(s)
     \/ (\E s \in Slots : ExecBook(s)) /\ UNCHANGED sendvars
  /\ UNCHANGED last

SpecSend == InitSend /\ [][NextSend]_vars

\* the active keys of the user a slot's call sends for
OwnKeys(s) == { j \in KeyIds : keys[j].is_active /\ keys[j].user_id = CallUser(s) }

\* the call of slot s chooses its key in this step
Selects(s) == calls[s].pc = "idle" /\ calls'[s].pc = "set_key"

\* C23: the key a send_email call chooses is an active key of the user and
\* none of the user's active keys was used less recently (a key never used
\* comes first); a key that was used before is chosen again only when each of
\* the user's other active keys has been used since; the commit after a
\* successful send stamps the chosen key as the most recently used
C23_LeastRecentlyUsedRotation ==
  [][\A s \in Slots :
       /\ Selects(s)
          => LET k == calls'[s].key
             IN /\ k \in OwnKeys(s)
                /\ \A j \in OwnKeys(s) : keys[k].last_used <= keys[j].last_used
                /\ keys[k].last_used > 0
                   => \A j \in OwnKeys(s) \ {k} : keys[j].last_used > keys[k].last_used
       /\ (calls[s].pc = "commit" /\ calls'[s].pc = "log")
          => LET k == calls[s].key
             IN /\ \A j \in KeyIds : keys'[k].last_used > keys[j].last_used
                /\ \A j \in KeyIds \ {k} : keys'[j] = keys[j]]_vars

\* C23 witness: the second call of an execution has chosen a key that was used
\* before, after the first call used and stamped the user's other active key
C23_Witness ==
  \E s \in Slots :
    /\ calls[s].pc = "set_key" /\ execs[s].i = 2
    /\ keys[calls[s].key].usage_count = 1
    /\ \E j \in OwnKeys(s) \ {calls[s].key} :
         keys[j].last_used > MaxKeys /\ keys[j].usage_count = 1

\* the provider attempts a call has made so far
Attempts(c) ==
  IF c.key = NoKey THEN 0
  ELSE IF c.pc \in {"set_key", "provider"} THEN c.attempt ELSE c.attempt + 1

\* C27: while the database accepts its writes, a send_email call makes at
\* most max_retries provider attempts and none after the one that succeeded;
\* when it has returned, it returned True exactly when an attempt succeeded and
\* it wrote one log row: 'sent' when it returned True, 'failed' when there was
\* no active key or when the last of the max_retries attempts failed
C27_RetriesAndOneLog ==
  \A s \in Slots :
    LET c == calls[s] IN
    /\ Attempts(c) <= MaxRetries
    /\ c.accepted <= 1
    /\ (c.accepted = 1 /\ c.pc # "return") => c.pc \in {"commit", "log"}
    /\ c.pc \notin {"idle", "return"} => c.logged = << >>
    /\ c.pc = "return"
       => /\ c.result = (c.accepted = 1)
          /\ Len(c.logged) = 1
          /\ c.logged[1] = IF c.result THEN "sent" ELSE "failed"
          /\ ~c.result => (c.key = NoKey \/ Attempts(c) = MaxRetries)

\* C27 witness: a call has returned True after two failed attempts, another
\* call has returned False after its last attempt failed
C27_Witness ==
  \E s, t \in Slots :
    /\ calls[s].pc = "return" /\ calls[s].result /\ calls[s].attempt = MaxRetries - 1
    /\ calls[s].logged = <<"sent">>
    /\ calls[t].pc = "return" /\ ~calls[t].result /\ calls[t].key # NoKey
    /\ calls[t].logged = <<"failed">>

\* C29: every email the provider accepted for an execution was sent with an
\* active key of the job's owner
C29_OwnKeyOnly ==
  \A s \in Slots : \A k \in calls[s].via :
    k \in KeyIds /\ keys[k].is_active /\ keys[k].user_id = CallUser(s)

\* C24: every email of a job carries the job's custom_data among its
\* variables (the recipient rows define no placeholder of that name)
C24_CustomDataSubstituted ==
  \A s \in Slots :
    calls[s].pc # "idle"
    => \A p \in DOMAIN custom_data(CallJob(s)) :
         /\ p \in DOMAIN calls[s].variables
         /\ calls[s].variables[p] = custom_data(CallJob(s))[p]

\* ----------------------------------------------------- database write faults
\* line 115: the commit of the key's usage raises; the session is rolled back,
\* the exception is caught by the except of the attempt
CommitUsageFails(s) ==
  /\ calls[s].pc = "commit"
  /\ calls' = [calls EXCEPT ![s] = AttemptFailed(@)]
  /\ UNCHANGED <<now, ticks, store, running, starts, triggers, execs, runs, mail, logs,
                 outcome, keys, resend_api_key>>

\* lines 118-121: the write of the log row 'sent' raises inside the try; the
\* exception is caught by the except of the attempt
LogSentFails(s) ==
  /\ calls[s].pc = "log"
  /\ calls' = [calls EXCEPT ![s] = AttemptFailed(@)]
  /\ UNCHANGED <<now, ticks, store, running, starts, triggers, execs, runs, mail, logs,
                 outcome, keys, resend_api_key>>

NextSendFaults ==
  \/ NextSend
  \/ /\ \/ \E s \in Slots : CommitUsageFails(s)
        \/ \E s \in Slots : LogSentFails(s)
     /\ UNCHANGED last

\* one job is being executed
InitSendFaults == \E s \in Slots \cap JobIds : InitSending({s})

SpecSendFaults == InitSendFaults /\ [][NextSendFaults]_vars

\* C26: within one send_email call the provider accepts the email at most once
C26_AcceptedAtMostOnce ==
  \A s \in Slots : calls[s].accepted <= 1

====
